---- MODULE Spec2Model ----
(***************************************************************************)
(* git-get (src/src/main.rs): the retrieval pipeline `run`, its pure       *)
(* helpers and the file-system effects they have.                          *)
(*                                                                         *)
(* Strings are sequences of one-character strings, so that every string    *)
(* operation of the source (trim, lines, split, starts_with, ...) is       *)
(* computed and not assumed.                                               *)
(***************************************************************************)
EXTENDS Integers, Sequences, FiniteSets, TLC

VARIABLES
  args,        \* the command line: url, repo, branch, path, dest (Args)
  remote,      \* the tree of the remote repository (relative paths)
  fs0,         \* the file system when the run started
  req,         \* the resolved request: repo, branch, path (line 68)
  destStr,     \* the destination string `dest` (line 71)
  repoUrl,     \* `repo_url` (line 87)
  guard,       \* what check_dest_path_safety answered, "none" before
  tempDir,     \* whether `temp_dir` holds the workspace (line 102)
  wsCreated,   \* how many workspaces the run has created
  sparseOn,    \* core.sparseCheckout of the workspace repository
  sparseFile,  \* the file .git/info/sparse-checkout of the workspace
  sourcePath,  \* `source_path` (line 110)
  fs,          \* the file system: absolute path |-> "dir" or "file"
  gitignore,   \* the file ./.gitignore: whether it exists, and its content
  log,         \* the steps taken so far, each with its outcome
  result,      \* "none" while running, then "Ok" or the kind of the error
  exitCode,    \* the exit status of the process, -1 while it runs
  pc,          \* where the run (or the harness) stands
  igHist,      \* registrar harness: the file after each call so far
  igRes,       \* registrar harness: the result of each call so far
  parsedUrl,   \* resolver harness: what parse_github_url made of the input
  again        \* resolver harness: build_repo_url applied to its own result

\* what a run never changes
inputVars == <<args, remote, fs0>>
\* the resolved request
reqVars == <<req, destStr, repoUrl>>
\* the state of the workspace besides its files
wsVars == <<tempDir, wsCreated, sparseOn, sparseFile>>
\* what only the registrar harness changes
igVars == <<igHist, igRes>>
\* what only the resolver harness changes
resVars == <<parsedUrl, again>>

vars == <<inputVars, reqVars, wsVars, guard, sourcePath, fs, gitignore, log,
          result, exitCode, pc, igVars, resVars>>

(***************************************************************************)
(* Bounds                                                                  *)
(***************************************************************************)
\* longest destination string drawn for the Ignore Registrar
MaxDestLen == 3
\* longest initial ignore-file content drawn for the Ignore Registrar
MaxContentLen == 1
\* most entries (files and directories) of a source tree drawn for the
\* Materializer
MaxEntries == 3
\* most entries (files and directories) of the remote repository's tree
MaxRemoteEntries == 2
\* most subpath segments of a browsable URL drawn for the Request Resolver
MaxSegments == 2
\* longest short-form locator drawn for the Locator Normalizer
MaxLocatorLen == 3

(***************************************************************************)
(* Strings                                                                 *)
(***************************************************************************)
NL == "\n"
CR == "\r"

\* the characters the bounded strings are drawn from
IgnoreChars == {"a", "#", " ", ".", "/", NL}

RECURSIVE StringsUpTo(_, _)
StringsUpTo(chars, n) ==
  IF n = 0 THEN {<<>>}
  ELSE LET shorter == StringsUpTo(chars, n - 1)
       IN  shorter \cup {Append(s, c) : s \in shorter, c \in chars}

\* char::is_whitespace on the characters that can occur
is_whitespace(c) == c \in {" ", "\t", NL, CR}

\* s is a prefix of t (of strings, and of paths)
IsPrefix(s, t) == Len(s) <= Len(t) /\ SubSeq(t, 1, Len(s)) = s

\* str::starts_with
starts_with(s, p) == Len(s) >= Len(p) /\ SubSeq(s, 1, Len(p)) = p

\* str::ends_with
ends_with(s, p) ==
  Len(s) >= Len(p) /\ SubSeq(s, Len(s) - Len(p) + 1, Len(s)) = p

\* str::trim_start_matches: strips the prefix p as often as it occurs
RECURSIVE trim_start_matches(_, _)
trim_start_matches(s, p) ==
  IF p /= <<>> /\ starts_with(s, p)
  THEN trim_start_matches(SubSeq(s, Len(p) + 1, Len(s)), p)
  ELSE s

\* str::trim_end_matches: strips the suffix p as often as it occurs
RECURSIVE trim_end_matches(_, _)
trim_end_matches(s, p) ==
  IF p /= <<>> /\ ends_with(s, p)
  THEN trim_end_matches(SubSeq(s, 1, Len(s) - Len(p)), p)
  ELSE s

\* str::trim_start
RECURSIVE trim_start(_)
trim_start(s) ==
  IF s /= <<>> /\ is_whitespace(Head(s)) THEN trim_start(Tail(s)) ELSE s

\* str::trim_end
RECURSIVE trim_end(_)
trim_end(s) ==
  IF s /= <<>> /\ is_whitespace(s[Len(s)])
  THEN trim_end(SubSeq(s, 1, Len(s) - 1))
  ELSE s

\* str::trim
trim(s) == trim_end(trim_start(s))

\* index of the first occurrence of character c in s, 0 when there is none
RECURSIVE find_char(_, _, _)
find_char(s, c, i) ==
  IF i > Len(s) THEN 0
  ELSE IF s[i] = c THEN i
  ELSE find_char(s, c, i + 1)

\* a line without the "\r" that preceded its "\n"
strip_cr(l) ==
  IF l /= <<>> /\ l[Len(l)] = CR THEN SubSeq(l, 1, Len(l) - 1) ELSE l

\* str::lines: split at "\n", a final empty piece is no line
RECURSIVE lines(_)
lines(s) ==
  IF s = <<>> THEN <<>>
  ELSE LET i == find_char(s, NL, 1)
       IN  IF i = 0 THEN <<s>>
           ELSE <<strip_cr(SubSeq(s, 1, i - 1))>>
                  \o lines(SubSeq(s, i + 1, Len(s)))

\* str::split(c): the pieces between the occurrences of character c
RECURSIVE split(_, _)
split(s, c) ==
  LET i == find_char(s, c, 1)
  IN  IF i = 0 THEN <<s>>
      ELSE <<SubSeq(s, 1, i - 1)>> \o split(SubSeq(s, i + 1, Len(s)), c)

\* index of the first occurrence of string p in s at or after i, 0 when
\* there is none
RECURSIVE find_str(_, _, _)
find_str(s, p, i) ==
  IF i + Len(p) - 1 > Len(s) THEN 0
  ELSE IF SubSeq(s, i, i + Len(p) - 1) = p THEN i
  ELSE find_str(s, p, i + 1)

\* str::contains
contains(s, p) == find_str(s, p, 1) /= 0

\* str::split(p) for a string pattern p
RECURSIVE split_str(_, _)
split_str(s, p) ==
  LET i == find_str(s, p, 1)
  IN  IF i = 0 THEN <<s>>
      ELSE <<SubSeq(s, 1, i - 1)>>
             \o split_str(SubSeq(s, i + Len(p), Len(s)), p)

\* [&str]::join(sep)
RECURSIVE join_strs(_, _)
join_strs(pieces, sep) ==
  IF pieces = <<>> THEN <<>>
  ELSE IF Len(pieces) = 1 THEN pieces[1]
  ELSE pieces[1] \o sep \o join_strs(Tail(pieces), sep)

\* Option<String>
None == [some |-> FALSE, val |-> <<>>]
Some(v) == [some |-> TRUE, val |-> v]
\* Option::or
or_else(a, b) == IF a.some THEN a ELSE b

(***************************************************************************)
(* String literals of the source                                           *)
(***************************************************************************)
DotGit    == <<".", "g", "i", "t">>
DotDot    == <<".", ".">>
Dot       == <<".">>
GithubCom == <<"g", "i", "t", "h", "u", "b", ".", "c", "o", "m">>
SlashTree == <<"/", "t", "r", "e", "e", "/">>
Tree      == <<"t", "r", "e", "e">>
Blob      == <<"b", "l", "o", "b">>
Https     == <<"h", "t", "t", "p", "s", ":", "/", "/">>
GitAt     == <<"g", "i", "t", "@">>
Main      == <<"m", "a", "i", "n">>
Master    == <<"m", "a", "s", "t", "e", "r">>

(***************************************************************************)
(* Request Resolver: parse_input, parse_github_url                         *)
(***************************************************************************)
\* lines 174-223
parse_github_url(url0) ==
  LET url      == trim_end_matches(url0, <<"/">>)
      parts    == split_str(url, GithubCom \o <<"/">>)
      segments == split(parts[2], "/")
  IN  IF ~contains(url, GithubCom) THEN [ok |-> FALSE]
      ELSE IF Len(parts) /= 2 THEN [ok |-> FALSE]
      ELSE IF Len(segments) < 2 THEN [ok |-> FALSE]
      ELSE LET tree == /\ Len(segments) > 3
                       /\ (segments[3] = Tree \/ segments[3] = Blob)
           IN  [ok     |-> TRUE,
                repo   |-> segments[1] \o <<"/">>
                             \o trim_end_matches(segments[2], DotGit),
                branch |-> IF tree THEN Some(segments[4]) ELSE None,
                path   |-> IF tree /\ Len(segments) > 4
                           THEN Some(join_strs(SubSeq(segments, 5, Len(segments)),
                                               <<"/">>))
                           ELSE None]

\* lines 142-170: the error, or (repo, branch, path)
parse_input(a) ==
  LET input_url == or_else(a.url, a.repo)
      url       == input_url.val
  IN  IF ~input_url.some THEN [result |-> "MissingInput"]
      ELSE IF contains(url, GithubCom) /\ contains(url, SlashTree)
      THEN LET parsed == parse_github_url(url)
           IN  IF ~parsed.ok THEN [result |-> "InvalidLocator"]
               ELSE [result |-> "Ok",
                     repo   |-> parsed.repo,
                     branch |-> IF a.branch.some THEN a.branch.val
                                ELSE IF parsed.branch.some THEN parsed.branch.val
                                ELSE Main,
                     path   |-> or_else(a.path, parsed.path)]
      ELSE [result |-> "Ok",
            repo   |-> url,
            branch |-> IF a.branch.some THEN a.branch.val ELSE Main,
            path   |-> a.path]

\* the default destination had line 81 been left out
default_dest_keeps_suffix(repo, path) ==
  IF path.some
  THEN LET pieces == split(path.val, "/") IN pieces[Len(pieces)]
  ELSE LET pieces == split(repo, "/") IN pieces[Len(pieces)]

\* lines 71-84: the destination when --dest is not given
default_dest(repo, path) ==
  IF path.some
  THEN LET pieces == split(path.val, "/") IN pieces[Len(pieces)]
  ELSE LET pieces == split(repo, "/")
       IN  trim_end_matches(pieces[Len(pieces)], DotGit)

(***************************************************************************)
(* Locator Normalizer: build_repo_url                                      *)
(***************************************************************************)
\* the normalizer had it not looked at the two parts (line 266)
build_repo_url_any_two(repo) ==
  LET parts == split(repo, "/")
  IN  IF starts_with(repo, Https) \/ starts_with(repo, GitAt)
      THEN [result |-> "Ok", url |-> repo]
      ELSE IF Len(parts) = 2
      THEN [result |-> "Ok",
            url |-> Https \o GithubCom \o <<"/">> \o repo \o DotGit]
      ELSE [result |-> "InvalidLocator", url |-> <<>>]

\* the normalizer had it built the URL without its scheme (line 267)
build_repo_url_no_scheme(repo) ==
  LET parts == split(repo, "/")
  IN  IF starts_with(repo, Https) \/ starts_with(repo, GitAt)
      THEN [result |-> "Ok", url |-> repo]
      ELSE IF Len(parts) = 2 /\ parts[1] /= <<>> /\ parts[2] /= <<>>
      THEN [result |-> "Ok", url |-> GithubCom \o <<"/">> \o repo \o DotGit]
      ELSE [result |-> "InvalidLocator", url |-> <<>>]

\* lines 258-274
build_repo_url(repo) ==
  LET parts == split(repo, "/")
  IN  IF starts_with(repo, Https) \/ starts_with(repo, GitAt)
      THEN [result |-> "Ok", url |-> repo]
      ELSE IF Len(parts) = 2 /\ parts[1] /= <<>> /\ parts[2] /= <<>>
      THEN [result |-> "Ok",
            url |-> Https \o GithubCom \o <<"/">> \o repo \o DotGit]
      ELSE [result |-> "InvalidLocator", url |-> <<>>]

(***************************************************************************)
(* Paths and the file system.  A name is a string; an absolute path is the *)
(* sequence of names from the root; the file system maps the absolute      *)
(* paths that exist to "dir" or "file".  There are no symbolic links.      *)
(***************************************************************************)
Root == <<>>
\* the directory the program runs in
Cwd == << <<"c", "w", "d">> >>
\* the system's temporary directory and the directory TempDir::new makes
TmpRoot == << <<"t", "m", "p">> >>
Workspace == Append(TmpRoot, <<"w", "s">>)

Parent(p) == IF p = <<>> THEN <<>> ELSE SubSeq(p, 1, Len(p) - 1)

\* std::path::Path from a string: whether it is absolute, and its
\* components ("" and "." pieces are no components)
PathOf(str) ==
  [str   |-> str,
   abs   |-> str /= <<>> /\ str[1] = "/",
   comps |-> SelectSeq(split(str, "/"), LAMBDA c : c /= <<>> /\ c /= Dot)]

\* Path::join: an absolute argument replaces the base
join(base, p) ==
  IF p.abs THEN p
  ELSE [str   |-> IF base.str = <<>> THEN p.str
                  ELSE IF p.str = <<>> THEN base.str \o <<"/">>
                  ELSE base.str \o <<"/">> \o p.str,
        abs   |-> base.abs,
        comps |-> base.comps \o p.comps]

\* the Path of an absolute path of the model
PathAt(abspath) ==
  [str |-> <<"/">>, abs |-> TRUE, comps |-> abspath]

\* a path that names nothing
NoEnt == << <<>> >>

\* the kernel's walk from directory cur along the components rest
RECURSIVE walk(_, _, _)
walk(f, cur, rest) ==
  IF rest = <<>> THEN cur
  ELSE IF cur \notin DOMAIN f \/ f[cur] /= "dir" THEN NoEnt
  ELSE walk(f,
            IF Head(rest) = DotDot THEN Parent(cur) ELSE Append(cur, Head(rest)),
            Tail(rest))

\* the absolute path a Path names: the empty path names nothing, a
\* relative path starts at the working directory
locate(f, p) ==
  IF p.str = <<>> THEN NoEnt
  ELSE walk(f, IF p.abs THEN Root ELSE Cwd, p.comps)

\* Path::exists, Path::is_dir
exists(f, p) == locate(f, p) \in DOMAIN f
is_dir(f, p) == exists(f, p) /\ f[locate(f, p)] = "dir"

\* std::fs::read_dir: the entries directly inside directory d
read_dir(f, d) ==
  {e \in DOMAIN f : Len(e) = Len(d) + 1 /\ SubSeq(e, 1, Len(d)) = d}

\* everything below directory d
below(f, d) ==
  {e \in DOMAIN f : Len(e) > Len(d) /\ SubSeq(e, 1, Len(d)) = d}

\* the file system with entry e of kind k added or replaced
with_entry(f, e, k) ==
  [x \in DOMAIN f \cup {e} |-> IF x = e THEN k ELSE f[x]]

\* std::fs::create_dir_all: the directory and its missing ancestors
RECURSIVE create_dir_all(_, _)
create_dir_all(f, d) ==
  IF d \in DOMAIN f THEN f
  ELSE with_entry(create_dir_all(f, Parent(d)), d, "dir")

\* a directory outside the working directory and the workspace
Outside == << <<"e">> >>

\* the file system wherever the program runs
BaseFs ==
  [x \in {Root, Cwd, TmpRoot, Outside, Append(Outside, <<"f">>)} |->
     IF x = Append(Outside, <<"f">>) THEN "file" ELSE "dir"]

\* a path with ".." taken as written: the place create_dir_all and
\* fs::copy make an entry that does not exist yet
RECURSIVE lexical(_, _)
lexical(cur, rest) ==
  IF rest = <<>> THEN cur
  ELSE lexical(IF Head(rest) = DotDot THEN Parent(cur)
               ELSE Append(cur, Head(rest)),
               Tail(rest))

place(p) == lexical(IF p.abs THEN Root ELSE Cwd, p.comps)

\* the tree with no entry
EmptyTree == [x \in {} |-> "dir"]

\* tree t (relative paths) placed inside directory at of file system f
graft(f, at, t) ==
  [x \in DOMAIN f \cup {at \o e : e \in DOMAIN t} |->
     IF x \in DOMAIN f THEN f[x] ELSE t[SubSeq(x, Len(at) + 1, Len(x))]]

\* the trees of at most n entries whose names are in names and whose
\* entries are of the kinds in kinds
RECURSIVE trees_up_to(_, _, _)
trees_up_to(names, kinds, n) ==
  IF n = 0 THEN {EmptyTree}
  ELSE LET prev == trees_up_to(names, kinds, n - 1)
       IN  prev \cup UNION {
             {with_entry(t, e, k) :
                e \in {Append(d, nm) :
                         d \in {x \in DOMAIN t : t[x] = "dir"} \cup {Root},
                         nm \in names} \ DOMAIN t,
                k \in kinds} : t \in prev}

\* the states of the destination path before a run
DestStates == {"absent", "file", "empty", "hidden", "full"}

\* file system f with the entry at path d in the given state; "hidden" is a
\* directory whose only entry has a name that starts with "."
dest_fs(f, d, state) ==
  CASE state = "absent" -> f
    [] state = "file"   -> with_entry(f, d, "file")
    [] state = "empty"  -> with_entry(f, d, "dir")
    [] state = "hidden" ->
         with_entry(with_entry(f, d, "dir"), Append(d, <<".", "h">>), "file")
    [] state = "full"   ->
         with_entry(with_entry(f, d, "dir"), Append(d, <<"a">>), "file")

(***************************************************************************)
(* Destination Guard: check_dest_path_safety                               *)
(***************************************************************************)
\* a guard that counts only the entries whose name does not start with "."
check_dest_path_safety_visible(f, dest_path) ==
  IF ~exists(f, dest_path) THEN "Ok"
  ELSE IF ~is_dir(f, dest_path) THEN "DestinationIsFile"
  ELSE IF \E e \in read_dir(f, locate(f, dest_path)) : e[Len(e)][1] /= "."
       THEN "DestinationNotEmpty"
  ELSE "Ok"

\* a guard that only refuses a destination that is no directory
check_dest_path_safety_no_count(f, dest_path) ==
  IF ~exists(f, dest_path) THEN "Ok"
  ELSE IF ~is_dir(f, dest_path) THEN "DestinationIsFile"
  ELSE "Ok"

\* lines 227-255
check_dest_path_safety(f, dest_path) ==
  IF ~exists(f, dest_path) THEN "Ok"
  ELSE IF ~is_dir(f, dest_path) THEN "DestinationIsFile"
  ELSE IF Cardinality(read_dir(f, locate(f, dest_path))) > 0
       THEN "DestinationNotEmpty"
  ELSE "Ok"

(***************************************************************************)
(* Materializer: copy_directory, copy_dir_recursive                        *)
(***************************************************************************)
\* a copy that skips nothing
skipped_never(file_name) == FALSE

\* line 371: the entries copy_dir_recursive passes over
skipped(file_name) == file_name = DotGit

\* lines 362-388: what copy_dir_recursive(src, dest) creates, in the order
\* it creates it; todo are the entries of src still to visit
RECURSIVE copy_dir_recursive(_, _, _, _)
copy_dir_recursive(f, src, dest, todo) ==
  IF todo = {} THEN <<>>
  ELSE LET entry     == CHOOSE e \in todo : TRUE
           file_name == entry[Len(entry)]
           dest_path == Append(dest, file_name)
           later     == copy_dir_recursive(f, src, dest, todo \ {entry})
       IN  IF skipped(file_name) THEN later
           ELSE IF f[entry] = "dir"
           THEN <<[path |-> dest_path, kind |-> "dir"]>>
                  \o copy_dir_recursive(f, entry, dest_path, read_dir(f, entry))
                  \o later
           ELSE <<[path |-> dest_path, kind |-> "file"]>> \o later

\* the file system after the first n creations of a plan
RECURSIVE apply_plan(_, _, _)
apply_plan(f, plan, n) ==
  IF n = 0 THEN f
  ELSE with_entry(apply_plan(f, plan, n - 1), plan[n].path, plan[n].kind)

\* whether create_dir_all(d) can succeed: nothing on the way is a file
can_create_dir(f, d) ==
  \A i \in 0..Len(d) :
    SubSeq(d, 1, i) \in DOMAIN f => f[SubSeq(d, 1, i)] = "dir"

\* the number of creations copy_directory(src, dest) attempts
copy_steps(f, src, dest) ==
  IF ~can_create_dir(f, place(dest)) THEN 0
  ELSE LET f1 == create_dir_all(f, place(dest))
       IN  IF ~is_dir(f1, src) THEN 0
           ELSE Len(copy_dir_recursive(f1, locate(f1, src), place(dest),
                                       read_dir(f1, locate(f1, src))))

\* lines 349-359: copy_directory(src, dest) when its fail_at-th file-system
\* operation fails (0: create_dir_all; beyond the last: none fails).
\* Reading src fails when it is no directory; a destination inside src is
\* copied into itself until a path is too long.
copy_directory(f, src, dest, fail_at) ==
  IF fail_at = 0 \/ ~can_create_dir(f, place(dest))
  THEN [result |-> "CopyFailed", fs |-> f]
  ELSE LET f1   == create_dir_all(f, place(dest))
           from == locate(f1, src)
       IN  IF ~is_dir(f1, src)
              \/ IsPrefix(from, place(dest))
           THEN [result |-> "CopyFailed", fs |-> f1]
           ELSE LET plan ==
                      copy_dir_recursive(f1, from, place(dest), read_dir(f1, from))
                IN  IF fail_at > Len(plan)
                    THEN [result |-> "Ok", fs |-> apply_plan(f1, plan, Len(plan))]
                    ELSE [result |-> "CopyFailed",
                          fs |-> apply_plan(f1, plan, fail_at - 1)]

(***************************************************************************)
(* Ignore Registrar: add_to_gitignore                                      *)
(***************************************************************************)
\* the ignore-file: absent, or present with its content
NoFile == [exists |-> FALSE, content |-> <<>>]
File(content) == [exists |-> TRUE, content |-> content]

\* "\n# Added by git-get\n" (line 432)
AddedBy ==
  <<NL, "#", " ", "A", "d", "d", "e", "d", " ", "b", "y", " ",
    "g", "i", "t", "-", "g", "e", "t", NL>>

\* line 406
normalized_path(dest_path) == trim_start_matches(dest_path, <<".", "/">>)

\* lines 409-420: some non-comment, non-blank line is the path already
already_listed(content, normalized) ==
  \E i \in 1..Len(lines(content)) :
    LET trimmed == trim(lines(content)[i])
    IN  /\ ~(starts_with(trimmed, <<"#">>) \/ trimmed = <<>>)
        /\ \/ trimmed = normalized
           \/ trimmed = <<".", "/">> \o normalized

\* a registrar that writes its entry over the file instead of after it
new_content_overwrite(content, normalized) == AddedBy \o normalized \o <<NL>>

\* lines 423-434
new_content(content, normalized) ==
  (IF content /= <<>> /\ ~ends_with(content, <<NL>>)
   THEN content \o <<NL>> ELSE content)
    \o AddedBy \o normalized \o <<NL>>

\* outcomes of the registrar's file I/O
IoOutcomes == {"ok", "read_err", "write_err"}

\* lines 392-443: the result and the ignore-file afterwards
add_to_gitignore(dest_path, file, io) ==
  IF ~file.exists THEN [result |-> "Ok", file |-> file]
  ELSE IF io = "read_err" THEN [result |-> "IgnoreFileError", file |-> file]
  ELSE IF already_listed(file.content, normalized_path(dest_path))
       THEN [result |-> "Ok", file |-> file]
  ELSE IF io = "write_err" THEN [result |-> "IgnoreFileError", file |-> file]
  ELSE [result |-> "Ok",
        file |-> File(new_content(file.content, normalized_path(dest_path)))]

(***************************************************************************)
(* Staging Orchestrator: clone_repository, run_git_command, and what the   *)
(* external git does to the workspace                                      *)
(***************************************************************************)
\* the subprocess steps: the git subcommands run_git_command is called with
GitOps == {"init", "remote", "config", "fetch", "checkout"}

\* an entry of the log
Event(op, arg, ok) == [op |-> op, arg |-> arg, ok |-> ok]

\* a run_git_command that does not look at the exit status
run_git_command_unchecked(exit_ok) == "Ok"

\* lines 329-346: the result of a git subprocess that exited with success
\* (exit_ok) or without
run_git_command(exit_ok) == IF exit_ok THEN "Ok" ELSE "ExternalToolFailed"

\* a fallback that retries whatever the branch is
fallback_any_branch(fetch_failed, branch_name) == fetch_failed

\* line 313: whether the fetch of "master" is attempted
fallback(fetch_failed, branch_name) == fetch_failed /\ branch_name = Main

\* line 294: whether sparse checkout is configured
sparse_wanted(subdir) == subdir.some

\* a pattern file without the final newline
sparse_content_no_newline(subdir) == subdir

\* line 301: the content written to .git/info/sparse-checkout
sparse_content(subdir) == subdir \o <<NL>>

\* the patterns git reads from a sparse-checkout file: its lines that are
\* neither blank nor comments
sparse_patterns(file) ==
  IF ~file.exists THEN <<>>
  ELSE SelectSeq(lines(file.content),
                 LAMBDA l : l /= <<>> /\ ~starts_with(l, <<"#">>))

\* whether git's pattern pat selects the entry at relative path e: a pattern
\* with a "/" before its end is anchored at the top, another one matches the
\* name at any depth; what is below a selected entry is selected
sparse_match(pat, e) ==
  LET p == PathOf(pat)
      anchored == contains(SubSeq(pat, 1, Len(pat) - 1), <<"/">>)
  IN  IF p.comps = <<>> THEN FALSE
      ELSE IF anchored THEN IsPrefix(p.comps, e)
      ELSE \E i \in 1..Len(e) : e[i] = p.comps[1]

\* git checkout FETCH_HEAD (lines 317, 321): the files of the fetched tree
\* that sparse checkout selects, with the directories they are in
checkout(f, tree, sparse_on, file) ==
  LET pats  == sparse_patterns(file)
      files == {e \in DOMAIN tree :
                  /\ tree[e] = "file"
                  /\ sparse_on =>
                       \E i \in 1..Len(pats) : sparse_match(pats[i], e)}
      made  == {d \in DOMAIN tree : \E e \in files : IsPrefix(d, e)}
  IN  [x \in DOMAIN f \cup {Workspace \o e : e \in made} |->
         IF x \in DOMAIN f THEN f[x]
         ELSE tree[SubSeq(x, Len(Workspace) + 1, Len(x))]]

\* git init (line 289): the repository record in the workspace
git_init(f) ==
  with_entry(with_entry(f, Append(Workspace, DotGit), "dir"),
             Workspace \o <<DotGit, <<"H", "E", "A", "D">> >>, "file")

\* lines 299-301: the directory .git/info, made for the pattern file
sparse_dir(f) ==
  create_dir_all(f, Workspace \o <<DotGit, <<"i", "n", "f", "o">> >>)

\* the file system without directory d and what is in it
remove_dir_all(f, d) ==
  [x \in {e \in DOMAIN f : ~IsPrefix(d, e)} |-> f[x]]

\* a TempDir that is never removed
drop_leaks(f, held) == f

\* TempDir's drop at the end of run's scope (lines 102, 135): the workspace
\* is removed when run holds one
drop(f, held) == IF held THEN remove_dir_all(f, Workspace) ELSE f

\* the request before the resolver ran
NoRequest == [repo |-> <<>>, branch |-> <<>>, path |-> None]
NoArgs == [url |-> None, repo |-> None, branch |-> None, path |-> None,
           dest |-> None]
\* the resolver harness before it ran
NotParsed == [ok |-> FALSE]
NotNormalized == [result |-> "none", url |-> <<>>]

(***************************************************************************)
(* The pipeline: main and run                                              *)
(***************************************************************************)
\* run returns: its locals are dropped, main sees the result
Return(f, kind) ==
  /\ result' = kind
  /\ fs' = drop(f, tempDir)
  /\ tempDir' = FALSE
  /\ pc' = "returned"

\* the trees a remote repository can hold: files in directories, no empty
\* directory, no entry named .git
RemoteNames == {<<"a">>, <<"b">>}
RemoteTrees ==
  {t \in trees_up_to(RemoteNames, {"dir", "file"}, MaxRemoteEntries) :
     \A d \in DOMAIN t : t[d] = "dir" => read_dir(t, d) /= {}}

\* the command lines drawn
ArgsSet ==
  [url    : {None, Some(<<"x">>)},
   repo   : {None, Some(<<"o", "/", "r">>)},
   branch : {None, Some(<<"d", "e", "v">>)},
   path   : {None, Some(<<"a">>), Some(<<"a", "/", "b">>), Some(DotGit),
             Some(DotDot), Some(<<"/", "e">>)},
   dest   : {None, Some(<<"d">>)}]

\* the ignore-files drawn
IgnoreFiles == {NoFile, File(<<"x", NL>>)}

\* lines 68-84: the destination string, when the resolver succeeds
dest_of(a) ==
  LET r == parse_input(a)
  IN  IF a.dest.some THEN a.dest.val ELSE default_dest(r.repo, r.path)

Init ==
  /\ args \in ArgsSet
  /\ remote \in RemoteTrees
  /\ gitignore \in IgnoreFiles
  /\ \E state \in DestStates :
       LET d == IF parse_input(args).result = "Ok"
                THEN place(PathOf(dest_of(args))) ELSE Root
       IN  IF d \in DOMAIN BaseFs
           THEN state = "absent" /\ fs = BaseFs
           ELSE fs = dest_fs(BaseFs, d, state)
  /\ fs0 = fs
  /\ req = NoRequest /\ destStr = <<>> /\ repoUrl = <<>>
  /\ guard = "none"
  /\ tempDir = FALSE /\ wsCreated = 0
  /\ sparseOn = FALSE /\ sparseFile = NoFile
  /\ sourcePath = PathAt(Root)
  /\ log = <<>>
  /\ result = "none"
  /\ exitCode = -1
  /\ pc = "parse"
  /\ igHist = <<>> /\ igRes = <<>>
  /\ parsedUrl = NotParsed /\ again = NotNormalized

\* lines 68-84: parse_input, then the destination
ParseInput ==
  /\ pc = "parse"
  /\ LET r == parse_input(args)
     IN  /\ log' = Append(log, Event("parse", <<>>, r.result = "Ok"))
         /\ IF r.result = "Ok"
            THEN /\ req' = [repo |-> r.repo, branch |-> r.branch,
                            path |-> r.path]
                 /\ destStr' = dest_of(args)
                 /\ pc' = "build_url"
                 /\ UNCHANGED <<result, fs, tempDir>>
            ELSE /\ Return(fs, r.result)
                 /\ UNCHANGED <<req, destStr>>
  /\ UNCHANGED <<inputVars, repoUrl, wsCreated, sparseOn, sparseFile, guard,
                 sourcePath, gitignore, exitCode, igVars,
                 resVars>>

\* line 87
BuildRepoUrl ==
  /\ pc = "build_url"
  /\ LET r == build_repo_url(req.repo)
     IN  /\ log' = Append(log, Event("normalize", <<>>, r.result = "Ok"))
         /\ IF r.result = "Ok"
            THEN /\ repoUrl' = r.url
                 /\ pc' = "guard"
                 /\ UNCHANGED <<result, fs, tempDir>>
            ELSE /\ Return(fs, r.result)
                 /\ UNCHANGED repoUrl
  /\ UNCHANGED <<inputVars, req, destStr, wsCreated, sparseOn, sparseFile,
                 guard, sourcePath, gitignore, exitCode, igVars,
                 resVars>>

\* the guard's step had it made the destination directory on passing
DestinationGuard_creates ==
  /\ pc = "guard"
  /\ guard' = check_dest_path_safety(fs, PathOf(destStr))
  /\ log' = Append(log, Event("guard", <<>>, guard' = "Ok"))
  /\ IF guard' = "Ok"
     THEN /\ pc' = "tempdir"
          /\ fs' = create_dir_all(fs, place(PathOf(destStr)))
          /\ UNCHANGED <<result, tempDir>>
     ELSE Return(fs, guard')
  /\ UNCHANGED <<inputVars, reqVars, wsCreated, sparseOn, sparseFile,
                 sourcePath, gitignore, exitCode, igVars,
                 resVars>>

\* lines 98-99
DestinationGuard ==
  /\ pc = "guard"
  /\ guard' = check_dest_path_safety(fs, PathOf(destStr))
  /\ log' = Append(log, Event("guard", <<>>, guard' = "Ok"))
  /\ IF guard' = "Ok"
     THEN pc' = "tempdir" /\ UNCHANGED <<result, fs, tempDir>>
     ELSE Return(fs, guard')
  /\ UNCHANGED <<inputVars, reqVars, wsCreated, sparseOn, sparseFile,
                 sourcePath, gitignore, exitCode, igVars,
                 resVars>>

\* line 102: TempDir::new
CreateTempDir ==
  /\ pc = "tempdir"
  /\ \E ok \in BOOLEAN :
       /\ log' = Append(log, Event("tempdir", <<>>, ok))
       /\ IF ok
          THEN /\ fs' = with_entry(fs, Workspace, "dir")
               /\ tempDir' = TRUE
               /\ wsCreated' = wsCreated + 1
               /\ pc' = "git_init"
               /\ UNCHANGED result
          ELSE /\ Return(fs, "WorkspaceCreationFailed")
               /\ UNCHANGED wsCreated
  /\ UNCHANGED <<inputVars, reqVars, sparseOn, sparseFile, guard, sourcePath,
                 gitignore, exitCode, igVars,
                 resVars>>


\* line 289: git init
GitInit ==
  /\ pc = "git_init"
  /\ \E ok \in BOOLEAN :
       /\ log' = Append(log, Event("init", <<>>, ok))
       /\ IF run_git_command(ok) = "Ok"
          THEN /\ fs' = git_init(fs)
               /\ pc' = "git_remote"
               /\ UNCHANGED <<result, tempDir>>
          ELSE Return(fs, "ExternalToolFailed")
  /\ UNCHANGED <<inputVars, reqVars, wsCreated, sparseOn, sparseFile, guard,
                 sourcePath, gitignore, exitCode, igVars,
                 resVars>>

\* lines 292-294: git remote add origin <url>
GitRemoteAdd ==
  /\ pc = "git_remote"
  /\ \E ok \in BOOLEAN :
       /\ log' = Append(log, Event("remote", repoUrl, ok))
       /\ IF run_git_command(ok) = "Ok"
          THEN /\ pc' = IF sparse_wanted(req.path) THEN "git_config"
                        ELSE "git_fetch"
               /\ UNCHANGED <<result, fs, tempDir>>
          ELSE Return(fs, "ExternalToolFailed")
  /\ UNCHANGED <<inputVars, reqVars, wsCreated, sparseOn, sparseFile, guard,
                 sourcePath, gitignore, exitCode, igVars,
                 resVars>>

\* line 296: git config core.sparseCheckout true
GitConfigSparse ==
  /\ pc = "git_config"
  /\ \E ok \in BOOLEAN :
       /\ log' = Append(log, Event("config", <<>>, ok))
       /\ IF run_git_command(ok) = "Ok"
          THEN /\ sparseOn' = TRUE
               /\ pc' = "sparse_write"
               /\ UNCHANGED <<result, fs, tempDir>>
          ELSE Return(fs, "ExternalToolFailed") /\ UNCHANGED sparseOn
  /\ UNCHANGED <<inputVars, reqVars, wsCreated, sparseFile, guard,
                 sourcePath, gitignore, exitCode, igVars,
                 resVars>>

\* lines 299-302: the pattern file is written
WriteSparse ==
  /\ pc = "sparse_write"
  /\ \E ok \in BOOLEAN :
       /\ log' = Append(log, Event("sparse_write", req.path.val, ok))
       /\ IF ok
          THEN /\ fs' = with_entry(
                          sparse_dir(fs),
                          Workspace \o <<DotGit, <<"i", "n", "f", "o">>,
                                         <<"s", "p", "a", "r", "s", "e">> >>,
                          "file")
               /\ sparseFile' = File(sparse_content(req.path.val))
               /\ pc' = "git_fetch"
               /\ UNCHANGED <<result, tempDir>>
          ELSE Return(fs, "SparseConfigFailed") /\ UNCHANGED sparseFile
  /\ UNCHANGED <<inputVars, reqVars, wsCreated, sparseOn, guard, sourcePath,
                 gitignore, exitCode, igVars,
                 resVars>>

\* lines 310-319: git fetch --depth=1 origin <branch>
GitFetch ==
  /\ pc = "git_fetch"
  /\ \E ok \in BOOLEAN :
       /\ log' = Append(log, Event("fetch", req.branch, ok))
       /\ IF fallback(run_git_command(ok) /= "Ok", req.branch)
          THEN pc' = "git_fetch_master" /\ UNCHANGED <<result, fs, tempDir>>
          ELSE IF run_git_command(ok) = "Ok"
          THEN pc' = "git_checkout" /\ UNCHANGED <<result, fs, tempDir>>
          ELSE Return(fs, "FetchFailed")
  /\ UNCHANGED <<inputVars, reqVars, wsCreated, sparseOn, sparseFile, guard,
                 sourcePath, gitignore, exitCode, igVars,
                 resVars>>

\* lines 315-316: git fetch --depth=1 origin master
GitFetchMaster ==
  /\ pc = "git_fetch_master"
  /\ \E ok \in BOOLEAN :
       /\ log' = Append(log, Event("fetch", Master, ok))
       /\ IF run_git_command(ok) = "Ok"
          THEN pc' = "git_checkout" /\ UNCHANGED <<result, fs, tempDir>>
          ELSE Return(fs, "FetchFailed")
  /\ UNCHANGED <<inputVars, reqVars, wsCreated, sparseOn, sparseFile, guard,
                 sourcePath, gitignore, exitCode, igVars,
                 resVars>>

\* lines 317 and 321: git checkout FETCH_HEAD
GitCheckout ==
  /\ pc = "git_checkout"
  /\ \E ok \in BOOLEAN :
       /\ log' = Append(log, Event("checkout", <<>>, ok))
       /\ IF run_git_command(ok) = "Ok"
          THEN /\ fs' = checkout(fs, remote, sparseOn, sparseFile)
               /\ pc' = "source"
               /\ UNCHANGED <<result, tempDir>>
          ELSE Return(fs, "ExternalToolFailed")
  /\ UNCHANGED <<inputVars, reqVars, wsCreated, sparseOn, sparseFile, guard,
                 sourcePath, gitignore, exitCode, igVars,
                 resVars>>

\* line 103: `temp_path`
temp_path == PathAt(Workspace)

\* lines 110-121: the source of the copy
LocateSource ==
  /\ pc = "source"
  /\ IF req.path.some
     THEN LET source_path == join(temp_path, PathOf(req.path.val))
          IN  IF ~exists(fs, source_path)
              THEN /\ Return(fs, "SubpathNotFound")
                   /\ UNCHANGED sourcePath
              ELSE /\ sourcePath' = source_path
                   /\ pc' = "copy"
                   /\ UNCHANGED <<result, fs, tempDir>>
     ELSE /\ sourcePath' = temp_path
          /\ pc' = "copy"
          /\ UNCHANGED <<result, fs, tempDir>>
  /\ UNCHANGED <<inputVars, reqVars, wsCreated, sparseOn, sparseFile, guard,
                 gitignore, log, exitCode, igVars,
                 resVars>>

\* line 124: copy_directory(source_path, dest_path)
Materialize ==
  /\ pc = "copy"
  /\ \E fail_at \in 0..(copy_steps(fs, sourcePath, PathOf(destStr)) + 1) :
       LET r == copy_directory(fs, sourcePath, PathOf(destStr), fail_at)
       IN  /\ log' = Append(log, Event("copy", <<>>, r.result = "Ok"))
           /\ IF r.result = "Ok"
              THEN /\ fs' = r.fs
                   /\ pc' = "gitignore"
                   /\ UNCHANGED <<result, tempDir>>
              ELSE Return(r.fs, r.result)
  /\ UNCHANGED <<inputVars, reqVars, wsCreated, sparseOn, sparseFile, guard,
                 sourcePath, gitignore, exitCode, igVars,
                 resVars>>

\* the registrar's step had its error been dropped instead of returned
Register_best_effort ==
  /\ pc = "gitignore"
  /\ \E io \in IoOutcomes :
       LET r == add_to_gitignore(destStr, gitignore, io)
       IN  /\ log' = Append(log, Event("register", <<>>, r.result = "Ok"))
           /\ gitignore' = r.file
           /\ Return(fs, "Ok")
  /\ UNCHANGED <<inputVars, reqVars, wsCreated, sparseOn, sparseFile, guard,
                 sourcePath, exitCode, igVars,
                 resVars>>

\* lines 133-136: add_to_gitignore(dest), then run returns
Register ==
  /\ pc = "gitignore"
  /\ \E io \in IoOutcomes :
       LET r == add_to_gitignore(destStr, gitignore, io)
       IN  /\ log' = Append(log, Event("register", <<>>, r.result = "Ok"))
           /\ gitignore' = r.file
           /\ Return(fs, r.result)
  /\ UNCHANGED <<inputVars, reqVars, wsCreated, sparseOn, sparseFile, guard,
                 sourcePath, exitCode, igVars,
                 resVars>>

\* lines 57-62: main exits with 1 on an error, with 0 otherwise
MainExit ==
  /\ pc = "returned"
  /\ exitCode' = IF result = "Ok" THEN 0 ELSE 1
  /\ pc' = "exited"
  /\ UNCHANGED <<inputVars, reqVars, wsVars, guard, sourcePath, fs, gitignore,
                 log, result, igVars,
                 resVars>>

Next ==
  \/ ParseInput \/ BuildRepoUrl \/ DestinationGuard \/ CreateTempDir
  \/ GitInit \/ GitRemoteAdd \/ GitConfigSparse \/ WriteSparse
  \/ GitFetch \/ GitFetchMaster \/ GitCheckout
  \/ LocateSource \/ Materialize \/ Register \/ MainExit

Spec == Init /\ [][Next]_vars

(***************************************************************************)
(* Properties of the pipeline                                              *)
(***************************************************************************)
\* the run is over: run has returned, or the process has exited
Terminated == pc \in {"returned", "exited"}

\* the subprocess invocations so far, and the fetches among them
GitLog == SelectSeq(log, LAMBDA e : e.op \in GitOps)
Fetches == SelectSeq(log, LAMBDA e : e.op = "fetch")
Count(op) == Cardinality({i \in 1..Len(log) : log[i].op = op})

\* C1: once the pipeline has terminated, at whatever step it failed or if
\* it succeeded, the ephemeral workspace no longer exists; a run creates at
\* most one workspace.
C1_WorkspaceReleased ==
  /\ Terminated => {e \in DOMAIN fs : IsPrefix(Workspace, e)} = {}
  /\ wsCreated <= 1

\* a run that failed after its workspace was populated has exited
C1_Witness ==
  /\ pc = "exited" /\ exitCode = 1
  /\ wsCreated = 1
  /\ result = "CopyFailed"

\* the destination existed before the run as a file or a non-empty directory
DestBad ==
  LET d == locate(fs0, PathOf(destStr))
  IN  /\ d \in DOMAIN fs0
      /\ fs0[d] /= "dir" \/ below(fs0, d) /= {}

\* C2: if the destination path exists and is a regular file or a non-empty
\* directory, the pipeline fails before the workspace is created and before
\* any subprocess is invoked; every subprocess invocation is preceded by a
\* Destination Guard check that passed.
C2_GuardBeforeStaging ==
  /\ DestBad =>
       /\ wsCreated = 0
       /\ GitLog = <<>>
       /\ pc \in {"build_url", "guard", "returned", "exited"}
       /\ Terminated => result /= "Ok"
       /\ pc = "exited" => exitCode /= 0
  /\ \A i \in 1..Len(log) :
       log[i].op \in GitOps =>
         \E j \in 1..(i - 1) : log[j].op = "guard" /\ log[j].ok

\* a run whose destination held entries has exited on the guard's refusal
C2_Witness ==
  /\ DestBad
  /\ pc = "exited"
  /\ result = "DestinationNotEmpty"
  /\ \E i \in 1..Len(log) : log[i].op = "guard" /\ ~log[i].ok

\* C3: fetch is invoked at most twice; a second fetch happens only when the
\* first failed and the requested branch is "main", and it targets
\* "master"; when the requested branch is not "main" a failed fetch ends
\* the pipeline in failure with no further subprocess; when the "master"
\* retry fails too the pipeline fails with no checkout and no third fetch.
C3_SingleFallback ==
  /\ Len(Fetches) <= 2
  /\ Len(Fetches) >= 1 => Fetches[1].arg = req.branch
  /\ Len(Fetches) = 2 =>
       /\ ~Fetches[1].ok
       /\ req.branch = Main
       /\ Fetches[2].arg = Master
  /\ (Len(Fetches) >= 1 /\ ~Fetches[1].ok /\ req.branch /= Main) =>
       /\ Len(Fetches) = 1
       /\ GitLog[Len(GitLog)] = Fetches[1]
       /\ Terminated /\ result = "FetchFailed"
  /\ (Len(Fetches) = 2 /\ ~Fetches[2].ok) =>
       /\ Count("checkout") = 0
       /\ GitLog[Len(GitLog)] = Fetches[2]
       /\ Terminated /\ result = "FetchFailed"

\* the fetch of "main" and the retry of "master" both failed
C3_Witness ==
  /\ Len(Fetches) = 2
  /\ ~Fetches[2].ok
  /\ pc = "exited"

\* the subcommand of a subprocess invocation, with the branch of a fetch
Step(e) == <<e.op, IF e.op = "fetch" THEN e.arg ELSE <<>> >>

\* the subprocess invocations of a whole staging, with or without the
\* fetch of "master"
Staging(with_master) ==
  <<Step(Event("init", <<>>, TRUE)), Step(Event("remote", <<>>, TRUE))>>
    \o (IF req.path.some THEN <<Step(Event("config", <<>>, TRUE))>>
        ELSE <<>>)
    \o <<Step(Event("fetch", req.branch, TRUE))>>
    \o (IF with_master THEN <<Step(Event("fetch", Master, TRUE))>> ELSE <<>>)
    \o <<Step(Event("checkout", <<>>, TRUE))>>

\* the i-th subprocess invocation is the first fetch, and it is of "main"
FirstFetchOfMain(i) ==
  /\ GitLog[i].op = "fetch" /\ GitLog[i].arg = Main
  /\ \A j \in 1..(i - 1) : GitLog[j].op /= "fetch"

\* C4: the subprocess invocations of a run are a prefix of init,
\* remote-add, (sparse-config only with a subpath), fetch of the requested
\* branch, (the fetch of master), checkout; each starts only after the
\* previous one succeeded; a non-zero exit of any step but the first fetch
\* of "main" ends staging in failure; checkout is invoked at most once, only
\* right after a fetch that succeeded, and once when staging succeeded.
C4_StagingOrder ==
  LET steps == [i \in 1..Len(GitLog) |-> Step(GitLog[i])]
  IN  /\ \E with_master \in BOOLEAN : IsPrefix(steps, Staging(with_master))
      /\ \A i \in 1..Len(GitLog) :
           ~GitLog[i].ok =>
             \/ FirstFetchOfMain(i)
             \/ i = Len(GitLog) /\ Terminated /\ result /= "Ok"
      /\ \A i \in 1..Len(GitLog) :
           GitLog[i].op = "checkout" =>
             i > 1 /\ GitLog[i - 1].op = "fetch" /\ GitLog[i - 1].ok
      /\ Count("checkout") <= 1
      /\ pc \in {"source", "copy", "gitignore"} =>
           /\ Count("checkout") = 1
           /\ \A i \in 1..Len(GitLog) : GitLog[i].ok \/ FirstFetchOfMain(i)

\* a run with a subpath went through every staging step, the fetch of
\* "master" included, and succeeded
C4_Witness ==
  /\ pc = "exited" /\ result = "Ok"
  /\ req.path.some
  /\ Len(GitLog) = 6

\* C5: with no subpath no run enables sparse checkout or writes a pattern
\* file; with a subpath sparse checkout is enabled and the pattern file
\* written before the first fetch, and the file holds the requested subpath
\* followed by a newline and nothing else.
C5_SparseOnlyWithSubpath ==
  /\ ~req.path.some =>
       /\ ~sparseOn /\ ~sparseFile.exists
       /\ Count("config") = 0 /\ Count("sparse_write") = 0
  /\ sparseFile.exists =>
       /\ req.path.some
       /\ sparseFile.content = req.path.val \o <<NL>>
  /\ \A i \in 1..Len(log) :
       (log[i].op = "fetch" /\ req.path.some) =>
         /\ sparseOn /\ sparseFile.exists
         /\ \E j \in 1..(i - 1) : log[j].op = "config" /\ log[j].ok
         /\ \E j \in 1..(i - 1) : log[j].op = "sparse_write" /\ log[j].ok

\* a run with a subpath has fetched
C5_Witness ==
  /\ req.path.some
  /\ Len(Fetches) >= 1
  /\ sparseFile.exists

\* the remote repository has an entry at the subpath
RemoteHas(subpath) ==
  LET p == PathOf(subpath)
  IN  ~p.abs /\ (p.comps = <<>> \/ p.comps \in DOMAIN remote)

\* C7: if a subpath was requested and, after a successful checkout, the
\* content fetched from the remote has no entry at that subpath, the
\* pipeline fails with SubpathNotFound and neither the Materializer nor the
\* Ignore Registrar runs, for every subpath value, one that names the
\* workspace's own .git directory included.
C7_SubpathNotFound ==
  (/\ req.path.some
   /\ \E i \in 1..Len(log) : log[i].op = "checkout" /\ log[i].ok
   /\ ~RemoteHas(req.path.val)) =>
    /\ pc \notin {"copy", "gitignore"}
    /\ Count("copy") = 0 /\ Count("register") = 0
    /\ Terminated => result = "SubpathNotFound"

\* the component a step belongs to: 1 Request Resolver, 2 Locator
\* Normalizer, 3 Destination Guard, 4 Staging Orchestrator, 5 Materializer,
\* 6 Ignore Registrar
component(op) ==
  CASE op = "parse"     -> 1
    [] op = "normalize" -> 2
    [] op = "guard"     -> 3
    [] op = "copy"      -> 5
    [] op = "register"  -> 6
    [] OTHER            -> 4

\* component k has succeeded: its step has, and for the Staging Orchestrator
\* the checkout has and the subpath was found
succeeded(k) ==
  IF k = 4
  THEN /\ \E i \in 1..Len(log) : log[i].op = "checkout" /\ log[i].ok
       /\ result /= "SubpathNotFound"
  ELSE \E i \in 1..Len(log) : component(log[i].op) = k /\ log[i].ok

\* C18: the components run in the order Resolver, Normalizer, Destination
\* Guard, Staging Orchestrator, Materializer, Ignore Registrar, each only
\* after all earlier ones succeeded; the run exits with status 0 exactly
\* when all six succeeded and with a non-zero status otherwise, also when
\* only the Ignore Registrar failed after the copy.
C18_OrderAndExitStatus ==
  /\ \A i, j \in 1..Len(log) :
       i < j => component(log[i].op) <= component(log[j].op)
  /\ \A j \in 1..Len(log) :
       \A k \in 1..(component(log[j].op) - 1) : succeeded(k)
  /\ \A k \in {1, 2, 3, 5, 6} :
       Cardinality({i \in 1..Len(log) : component(log[i].op) = k}) <= 1
  /\ pc = "exited" =>
       /\ exitCode = 0 <=> (\A k \in 1..6 : succeeded(k))
       /\ exitCode \in {0, 1}

\* the run exited with a failure of the Ignore Registrar alone
C18_Witness ==
  /\ pc = "exited" /\ exitCode = 1
  /\ \A k \in 1..5 : succeeded(k)
  /\ \E i \in 1..Len(log) : log[i].op = "register" /\ ~log[i].ok

\* C19: whenever the Materializer runs, the source root it copies from is
\* the workspace or a path located inside it, for every subpath value, also
\* one that is absolute or has ".." segments.
C19_SourceInsideWorkspace ==
  pc = "copy" => IsPrefix(Workspace, locate(fs, sourcePath))

\* what file system f holds at path d and below it
held_at(f, d) == {<<e, f[e]>> : e \in {x \in DOMAIN f : IsPrefix(d, x)}}

\* C20: in a run that fails before the Materializer starts, the destination
\* path and the ignore-file stay as they were before the run: as long as the
\* copy has not started nothing is created, written or deleted at the
\* destination, and the ignore-file changes only in a step that follows a
\* copy that completed without error.
C20_FrameBeforeCopy ==
  /\ [](Count("copy") = 0 =>
          held_at(fs, place(PathOf(destStr)))
            = held_at(fs0, place(PathOf(destStr))))
  /\ [][gitignore' /= gitignore =>
          \E i \in 1..Len(log) : log[i].op = "copy" /\ log[i].ok]_vars

\* a run failed in staging, after its workspace was made, where an
\* ignore-file exists
C20_Witness ==
  /\ pc = "exited"
  /\ wsCreated = 1 /\ Count("copy") = 0
  /\ destStr /= <<>>
  /\ gitignore.exists

\* the variables the harnesses of the later components do not use
Unused ==
  /\ parsedUrl = NotParsed /\ again = NotNormalized
  /\ args = NoArgs /\ remote = EmptyTree
  /\ req = NoRequest /\ repoUrl = <<>>
  /\ guard = "none"
  /\ tempDir = FALSE /\ wsCreated = 0
  /\ sparseOn = FALSE /\ sparseFile = NoFile
  /\ log = <<>>
  /\ exitCode = -1

(***************************************************************************)
(* The Destination Guard and the Materializer on their own: any source     *)
(* tree in the workspace, any state of the destination.                    *)
(***************************************************************************)
\* the names of the entries of the source trees
CopyNames == {<<"a">>, <<"b">>, DotGit}

InitCopy ==
  /\ destStr = <<"d">>
  /\ \E t \in trees_up_to(CopyNames, {"dir", "file"}, MaxEntries),
        state \in DestStates :
       fs = graft(with_entry(dest_fs(BaseFs, place(PathOf(destStr)), state),
                             Workspace, "dir"),
                  Workspace, t)
  /\ fs0 = fs
  /\ sourcePath = PathAt(Workspace)
  /\ result = "none"
  /\ pc = "guard"
  /\ gitignore = NoFile
  /\ igHist = <<>> /\ igRes = <<>>
  /\ Unused

\* the guard on the destination
CopyGuard ==
  /\ pc = "guard"
  /\ guard' = check_dest_path_safety(fs, PathOf(destStr))
  /\ IF guard' = "Ok" THEN pc' = "copy" /\ result' = result
     ELSE pc' = "done" /\ result' = guard'
  /\ UNCHANGED <<inputVars, reqVars, wsVars, sourcePath, fs, gitignore, log,
                 exitCode, igVars,
                 resVars>>

\* copy_directory from the source root into the destination
CopyRun ==
  /\ pc = "copy"
  /\ \E fail_at \in
        0..(copy_steps(fs, sourcePath, PathOf(destStr)) + 1) :
       LET r == copy_directory(fs, sourcePath, PathOf(destStr), fail_at)
       IN  fs' = r.fs /\ result' = r.result
  /\ pc' = "done"
  /\ UNCHANGED <<inputVars, reqVars, wsVars, guard, sourcePath, gitignore,
                 log, exitCode, igVars,
                 resVars>>

NextCopy == CopyGuard \/ CopyRun

SpecCopy == InitCopy /\ [][NextCopy]_vars

outside_git(f, d) ==
  {e \in below(f, d) : \A i \in (Len(d) + 1)..Len(e) : e[i] /= DotGit}

\* the path in directory to of what is at path e in directory from
moved(e, from, to) == to \o SubSeq(e, Len(from) + 1, Len(e))

\* C8: after the Materializer succeeded copying source root S into a
\* destination D that passed the Destination Guard, D holds, for every entry
\* under S at a relative path with no component named .git, an entry of the
\* same kind at the same relative path, and D holds no entry named .git at
\* any depth.
C8_CopyExcludesGit ==
  (pc = "done" /\ result = "Ok") =>
    LET S == locate(fs0, sourcePath)
        D == place(PathOf(destStr))
    IN  /\ \A e \in outside_git(fs0, S) :
             /\ moved(e, S, D) \in DOMAIN fs
             /\ fs[moved(e, S, D)] = fs0[e]
        /\ \A x \in below(fs, D) : x[Len(x)] /= DotGit

\* a copy succeeded whose source held a .git below its top level and an
\* entry beside it
C8_Witness ==
  /\ pc = "done" /\ result = "Ok"
  /\ \E e \in below(fs0, locate(fs0, sourcePath)) :
       /\ Len(e) > Len(locate(fs0, sourcePath)) + 1
       /\ e[Len(e)] = DotGit
  /\ \E e \in outside_git(fs0, locate(fs0, sourcePath)) :
       Len(e) > Len(locate(fs0, sourcePath)) + 1

(***************************************************************************)
(* The registrar on its own: any destination string, any ignore-file,      *)
(* called twice in a row.                                                  *)
(***************************************************************************)
InitIgnore ==
  /\ destStr \in StringsUpTo(IgnoreChars, MaxDestLen)
  /\ gitignore \in
       {NoFile} \cup {File(c) : c \in StringsUpTo(IgnoreChars, MaxContentLen)}
  /\ igHist = <<gitignore>>
  /\ igRes = <<>>
  /\ fs = BaseFs /\ fs0 = BaseFs
  /\ sourcePath = PathAt(Root)
  /\ result = "none"
  /\ pc = "registrar"
  /\ Unused

IgnoreCall ==
  /\ Len(igRes) < 2
  /\ \E io \in IoOutcomes :
       LET r == add_to_gitignore(destStr, gitignore, io)
       IN  /\ gitignore' = r.file
           /\ igHist' = Append(igHist, r.file)
           /\ igRes' = Append(igRes, r.result)
  /\ UNCHANGED <<inputVars, reqVars, wsVars, guard, sourcePath, fs, log,
                 result, exitCode, pc, resVars>>

NextIgnore == IgnoreCall

SpecIgnore == InitIgnore /\ [][NextIgnore]_vars

\* C9: the Ignore Registrar is idempotent for every destination string and
\* every initial ignore-file: after two successful calls in a row with the
\* same destination, the file after the second call is the file after the
\* first call.
C9_RegistrarIdempotent ==
  (Len(igRes) = 2 /\ igRes[1] = "Ok" /\ igRes[2] = "Ok")
    => igHist[3] = igHist[2]

\* C10: the Ignore Registrar never creates the ignore-file (an absent file
\* stays absent and the call succeeds), and whenever a call changes an
\* existing file the previous content is a prefix of the new content.
C10_RegistrarOnlyAppends ==
  \A i \in 1..Len(igRes) :
    /\ ~igHist[i].exists => (igHist[i + 1] = igHist[i] /\ igRes[i] = "Ok")
    /\ igHist[i].exists =>
         /\ igHist[i + 1].exists
         /\ IsPrefix(igHist[i].content, igHist[i + 1].content)

\* a call appended an entry to an ignore-file that held lines already
C10_Witness ==
  /\ Len(igRes) >= 1
  /\ igHist[1].exists /\ igHist[1].content /= <<>>
  /\ igHist[2] /= igHist[1]

(***************************************************************************)
(* The Request Resolver and the Locator Normalizer on their own: any       *)
(* command line, browsable URLs of every drawn owner, name, kind, branch   *)
(* and subpath; the normalizer is applied once more to its own result.     *)
(***************************************************************************)
Slash == <<"/">>
Acme  == <<"a", "c", "m", "e">>
Tools == <<"t", "o", "o", "l", "s">>
Dev   == <<"d", "e", "v">>
Lib   == <<"l", "i", "b">>
Util  == <<"u", "t", "i", "l">>

\* the sequences of at most n elements of set S
RECURSIVE SeqsUpTo(_, _)
SeqsUpTo(S, n) ==
  IF n = 0 THEN {<<>>}
  ELSE LET shorter == SeqsUpTo(S, n - 1)
       IN  shorter \cup {Append(q, x) : q \in shorter, x \in S}

\* the URL a browser shows for a directory (kind tree) or a file (kind
\* blob) of a repository: host/owner/name/kind/branch/segments
browsable(owner, name, kind, branch, segs) ==
  Https \o GithubCom \o Slash \o owner \o Slash \o name \o Slash \o kind
    \o Slash \o branch
    \o (IF segs = <<>> THEN <<>> ELSE Slash \o join_strs(segs, Slash))

Owners   == {<<"o">>, Acme}
Names    == {<<"r">>, Tools}
Kinds    == {Tree, Blob}
Branches == {Dev}
\* the names of directories; a directory named after the host is common in
\* vendored source trees
SegNames == {<<"a">>, Lib, Util, GithubCom}
SegSeqs  == SeqsUpTo(SegNames, MaxSegments)

\* scenario A of the specification
ScenarioA == browsable(Acme, Tools, Tree, Dev, <<Lib, Util>>)

BrowsableUrls ==
  {browsable(o, n, k, b, q) :
     o \in Owners, n \in Names, k \in Kinds, b \in Branches, q \in SegSeqs}

\* repository locators: short forms, well-formed or not, and full URLs
Locators ==
  StringsUpTo({"o", "/"}, MaxLocatorLen)
    \cup {Https \o <<"h">>, GitAt \o <<"h">>,
          <<"h", "t", "t", "p", ":", "/", "/", "h">>,
          <<"o", "/", "r">> \o DotGit,
          Https \o GithubCom \o <<"/", "o", "/", "r">> \o DotGit,
          Https \o GithubCom \o <<"/", "o", "/", "r">> \o DotGit \o DotGit}

\* the command lines drawn: a browsable URL with or without overrides, or
\* a locator with any branch and path
ArgsResolve ==
  [url    : {Some(u) : u \in BrowsableUrls}
              \cup {Some(ScenarioA \o Slash), Some(<<"o", "/", "r">>)},
   repo   : {None, Some(<<"o", "/", "r">>)},
   branch : {None, Some(Main)},
   path   : {None, Some(Lib)},
   dest   : {None, Some(<<"d">>)}]
  \cup
  [url    : {None},
   repo   : {None} \cup {Some(l) : l \in Locators},
   branch : {None, Some(Dev), Some(<<>>)},
   path   : {None, Some(<<"a", "/", "b">>), Some(<<"a", "/">>), Some(<<>>),
             Some(<<"/", "e">>)},
   dest   : {None, Some(<<"d">>)}]

InitResolve ==
  /\ args \in ArgsResolve
  /\ remote = EmptyTree
  /\ fs = BaseFs /\ fs0 = BaseFs
  /\ gitignore = NoFile
  /\ req = NoRequest /\ destStr = <<>> /\ repoUrl = <<>>
  /\ guard = "none"
  /\ tempDir = FALSE /\ wsCreated = 0
  /\ sparseOn = FALSE /\ sparseFile = NoFile
  /\ sourcePath = PathAt(Root)
  /\ log = <<>>
  /\ result = "none"
  /\ exitCode = -1
  /\ pc = "parse_url"
  /\ igHist = <<>> /\ igRes = <<>>
  /\ parsedUrl = NotParsed /\ again = NotNormalized

\* parse_github_url applied to the positional value
ResolveUrl ==
  /\ pc = "parse_url"
  /\ parsedUrl' = IF args.url.some THEN parse_github_url(args.url.val)
                  ELSE parsedUrl
  /\ pc' = "parse"
  /\ UNCHANGED <<inputVars, reqVars, wsVars, guard, sourcePath, fs, gitignore,
                 log, result, exitCode, igVars, again>>

\* build_repo_url applied to the clone URL it returned
NormalizeAgain ==
  /\ pc = "guard"
  /\ again' = build_repo_url(repoUrl)
  /\ pc' = "done"
  /\ UNCHANGED <<inputVars, reqVars, wsVars, guard, sourcePath, fs, gitignore,
                 log, result, exitCode, igVars, parsedUrl>>

NextResolve == ResolveUrl \/ ParseInput \/ BuildRepoUrl \/ NormalizeAgain

SpecResolve == InitResolve /\ [][NextResolve]_vars

\* the resolver produced a request
Resolved == \E i \in 1..Len(log) : log[i].op = "parse" /\ log[i].ok

\* C11: every request the Request Resolver produces, for any combination of
\* positional value, explicit locator, explicit branch and explicit path,
\* has a non-empty branch, and its subpath, when present, is non-empty and
\* does not begin with "/".
C11_RequestInvariant ==
  Resolved =>
    /\ req.branch /= <<>>
    /\ req.path.some => (req.path.val /= <<>> /\ Head(req.path.val) /= "/")

\* the locator, branch and subpath a browsable URL stands for
locator_of(o, n) == o \o Slash \o n
subpath_of(segs) == IF segs = <<>> THEN None ELSE Some(join_strs(segs, Slash))

\* C12: for every browsable URL host/owner/name/tree/branch/a/b/c (every
\* owner, repository name, branch and subpath segments), parsing succeeds
\* and yields locator owner/name, branch branch and subpath a/b/c.
C12_BrowsableUrlParsed ==
  pc /= "parse_url" =>
    \A o \in Owners, n \in Names, b \in Branches, q \in SegSeqs \ {<<>>} :
      args.url = Some(browsable(o, n, Tree, b, q)) =>
        /\ parsedUrl.ok
        /\ parsedUrl.repo = locator_of(o, n)
        /\ parsedUrl.branch = Some(b)
        /\ parsedUrl.path = subpath_of(q)

\* C13: a positional value host/owner/name/blob/branch/path is resolved as
\* a browsable URL, as with tree: the request has locator owner/name, the
\* branch of the URL and the subpath of the URL (each unless overridden),
\* not the raw URL as locator with branch "main".
C13_BlobResolvedAsUrl ==
  pc \notin {"parse_url", "parse"} =>
    \A o \in Owners, n \in Names, b \in Branches,
       q \in {<<>>, << <<"a">> >>, <<Lib, Util>>} :
      args.url = Some(browsable(o, n, Blob, b, q)) =>
        /\ Resolved
        /\ req.repo = locator_of(o, n)
        /\ req.branch = (IF args.branch.some THEN args.branch.val ELSE b)
        /\ req.path = or_else(args.path, subpath_of(q))

\* the value the resolver works on: the positional one when present, the
\* explicit locator otherwise
chosen(a) == IF a.url.some THEN a.url ELSE a.repo

SlashBlob == <<"/", "b", "l", "o", "b", "/">>

\* a value that has the host marker and a tree or blob path segment
is_browsable(v) ==
  contains(v, GithubCom) /\ (contains(v, SlashTree) \/ contains(v, SlashBlob))

\* the branch and the subpath of a browsable URL, none for any other value
extracted(v) ==
  IF is_browsable(v) /\ parse_github_url(v).ok
  THEN [branch |-> parse_github_url(v).branch,
        path   |-> parse_github_url(v).path]
  ELSE [branch |-> None, path |-> None]

\* C14: the resolver uses the positional value when present and the explicit
\* locator otherwise, and fails with MissingInput exactly when both are
\* absent; in the resolved request the branch is the explicit --branch if
\* supplied, else the branch extracted from a browsable URL, else "main",
\* and the subpath is the explicit --path if supplied, else the subpath
\* extracted from a browsable URL, else absent.
C14_ResolverPrecedence ==
  pc \notin {"parse_url", "parse"} =>
    LET value == chosen(args)
    IN  /\ (result = "MissingInput") <=> (~args.url.some /\ ~args.repo.some)
        /\ Resolved =>
             /\ ~is_browsable(value.val) => req.repo = value.val
             /\ req.branch =
                  (IF args.branch.some THEN args.branch.val
                   ELSE IF extracted(value.val).branch.some
                   THEN extracted(value.val).branch.val
                   ELSE Main)
             /\ req.path = or_else(args.path, extracted(value.val).path)

\* a locator that begins as a full URL or as an SSH-style locator
full_url(l) == starts_with(l, Https) \/ starts_with(l, GitAt)

\* a locator of exactly two non-empty segments: one "/", neither first nor
\* last
two_segments(l) ==
  /\ Cardinality({i \in 1..Len(l) : l[i] = "/"}) = 1
  /\ l[1] /= "/" /\ l[Len(l)] /= "/"

\* the canonical clone URL of owner/name
canonical(l) ==
  LET k     == CHOOSE i \in 1..Len(l) : l[i] = "/"
      owner == SubSeq(l, 1, k - 1)
      name  == SubSeq(l, k + 1, Len(l))
  IN  Https \o GithubCom \o Slash \o owner \o Slash \o name \o DotGit

\* C15: the Locator Normalizer returns the locator unchanged when it begins
\* with https:// or git@, returns the canonical https clone URL of the two
\* segments when the locator is exactly two non-empty segments, and fails
\* with InvalidLocator for every other locator; every clone URL it produces
\* begins with https:// or git@.
C15_NormalizerShapes ==
  \A i \in 1..Len(log) :
    log[i].op = "normalize" =>
      /\ full_url(req.repo) => (log[i].ok /\ repoUrl = req.repo)
      /\ (~full_url(req.repo) /\ two_segments(req.repo)) =>
           (log[i].ok /\ repoUrl = canonical(req.repo))
      /\ (~full_url(req.repo) /\ ~two_segments(req.repo)) =>
           (~log[i].ok /\ result = "InvalidLocator")
      /\ log[i].ok => full_url(repoUrl)

\* a short form was normalized to its canonical clone URL
C15_Witness ==
  /\ \E i \in 1..Len(log) : log[i].op = "normalize" /\ log[i].ok
  /\ two_segments(req.repo)
  /\ repoUrl = canonical(req.repo)

\* C16: normalization is idempotent: normalizing the clone URL the Locator
\* Normalizer returned succeeds and returns it unchanged.
C16_NormalizerIdempotent ==
  pc = "done" => (again.result = "Ok" /\ again.url = repoUrl)

\* the clone URL made from a short form was normalized again
C16_Witness ==
  /\ pc = "done"
  /\ again.result = "Ok"
  /\ repoUrl /= req.repo

\* seg is the last "/"-separated segment of s
last_segment_of(seg, s) ==
  /\ ~contains(seg, Slash)
  /\ (s = seg \/ ends_with(s, Slash \o seg))

\* k copies of p, one after the other
RECURSIVE repeated(_, _)
repeated(p, k) == IF k = 0 THEN <<>> ELSE p \o repeated(p, k - 1)

\* d is seg without the .git it ends with
without_git_suffix(d, seg) ==
  /\ ~ends_with(d, DotGit)
  /\ \E k \in 0..Len(seg) : seg = d \o repeated(DotGit, k)

\* C17: without an explicit destination, the destination is the last
\* "/"-separated segment of the subpath if a subpath is present, otherwise
\* the last segment of the repository locator with the trailing .git
\* removed; an explicit destination is used unchanged; scenario A resolves
\* to locator acme/tools, branch dev, subpath lib/util, destination util.
C17_DefaultDestination ==
  Resolved =>
    /\ args.dest.some => destStr = args.dest.val
    /\ (~args.dest.some /\ req.path.some) =>
         last_segment_of(destStr, req.path.val)
    /\ (~args.dest.some /\ ~req.path.some) =>
         \E i \in 1..(Len(req.repo) + 1) :
           LET seg == SubSeq(req.repo, i, Len(req.repo))
           IN  last_segment_of(seg, req.repo)
               /\ without_git_suffix(destStr, seg)
    /\ args = [url |-> Some(ScenarioA), repo |-> None, branch |-> None,
               path |-> None, dest |-> None] =>
         /\ req = [repo |-> locator_of(Acme, Tools), branch |-> Dev,
                   path |-> Some(Lib \o Slash \o Util)]
         /\ destStr = Util

\* the destination was taken from a locator that ends with .git
C17_Witness ==
  /\ Resolved
  /\ ~args.dest.some /\ ~req.path.some
  /\ ends_with(req.repo, DotGit)
  /\ destStr = <<"r">>

====
